---- MODULE Spec2Model ----
(***************************************************************************)
(* Model of epub_read_more_easily (src/src/epub_read_more_easily/          *)
(* __init__.py): the hyphenator cache, the tokenizer and syllable styler,  *)
(* the walk over a document's text nodes, and the file-level run.          *)
(*                                                                         *)
(* Strings whose characters matter are sequences of one-character strings. *)
(* A document tree is a sequence of node records; a node's id is its index *)
(* in that sequence, the BeautifulSoup object is node 1, and parent 0 is   *)
(* Python's None.                                                          *)
(***************************************************************************)
EXTENDS Integers, Sequences, FiniteSets, TLC

VARIABLES
    soup,            \* the parsed tree: Seq of node records
    all_text_nodes,  \* process_html_content: the list taken before the loop
    idx,             \* process_html_content: 1-based position of the for loop
    wpc,             \* where the walk is: "call", "loop", "done"
    visited,         \* history: the nodes the for loop has bound to text_node
    warnings,        \* history: how often the detached-node warning was printed
    last,            \* history: the last process_text_node call
    soup0,           \* history: the tree when process_html_content was called
    fs,              \* file system: path -> markup, or NoFile
    dirs,            \* file system: the directories that exist
    cache,           \* _HYPHENATOR_CACHE: language -> handle (partial)
    installed,       \* dictools: the languages whose dictionary is installed
    lookups,         \* history: language -> dictools.is_installed calls
    constructed,     \* history: language -> Hyphenator(lang) constructions
    returned,        \* history: what the last get_hyphenator call returned
    pc,              \* where the run is
    args,            \* Args of the current emphasize_file_content call
    output_path,     \* emphasize_file_content: the local output_path
    html_content,    \* process_html_file: the text read
    hyphenator,      \* process_html_file_content: the local hyphenator
    processed,       \* process_html_file: the local processed
    err,             \* the exception that ended the run, or "none"
    events,          \* history: what the current run has done so far
    fs0,             \* history: fs when the current run was called
    dirs0            \* history: dirs when the current run was called

walkVars == <<soup, all_text_nodes, idx, wpc, visited, warnings, last, soup0>>
runVars == <<fs, dirs, cache, installed, lookups, constructed, returned, pc, args,
             output_path, html_content, hyphenator, processed, err, events, fs0, dirs0>>
vars == <<soup, all_text_nodes, idx, wpc, visited, warnings, last, soup0,
          fs, dirs, cache, installed, lookups, constructed, returned, pc, args,
          output_path, html_content, hyphenator, processed, err, events, fs0, dirs0>>

(***************************************************************************)
(* Bounds                                                                  *)
(***************************************************************************)
\* longest text handed to process_text_node on its own
MaxLen == 4
\* deepest nesting of elements in the documents walked
MaxDepth == 2
\* most dictionary lookups counted for one language in one process
MaxCalls == 2

(***************************************************************************)
(* Constants of the program                                                *)
(***************************************************************************)
TARGET_LANG == "de_DE"
TAGS_TO_SKIP_DIRECT_TEXT == {"script", "style", "pre", "code", "textarea"}
TAGS_TO_SKIP_COMPLETELY == {"script", "style"}
DEFAULT_SUFFIX == "_syll_emph"

(***************************************************************************)
(* Characters and strings                                                  *)
(***************************************************************************)
Alphabet == {"a", "b", "_", " ", "."}
\* str.isalnum() of one character
IsAlnumChar(c) == c \in {"a", "b"}
\* the regular expression class \w: alphanumerics and the underscore
IsWordChar(c) == IsAlnumChar(c) \/ c = "_"
\* the characters str.strip() removes
IsSpaceChar(c) == c = " "

RECURSIVE StringsOfLen(_)
StringsOfLen(n) ==
    IF n = 0 THEN {<<>>}
    ELSE {<<c>> \o s : c \in Alphabet, s \in StringsOfLen(n - 1)}
Strings == UNION {StringsOfLen(n) : n \in 0..MaxLen}

RECURSIVE Concat(_)
Concat(ss) == IF ss = <<>> THEN <<>> ELSE Head(ss) \o Concat(Tail(ss))

RECURSIVE NonEmpty(_)
NonEmpty(ss) ==
    IF ss = <<>> THEN <<>>
    ELSE IF Head(ss) = <<>> THEN NonEmpty(Tail(ss))
    ELSE <<Head(ss)>> \o NonEmpty(Tail(ss))

SetMax(S) == CHOOSE m \in S : \A k \in S : k <= m

(***************************************************************************)
(* re.split(r"(\b\w+\b)", s).  Offsets run from 0 to Len(s); the character *)
(* after offset i is s[i+1].                                               *)
(***************************************************************************)
\* \b at offset i: exactly one of the two neighbours is a word character
AtBoundary(s, i) ==
    LET before == i >= 1 /\ IsWordChar(s[i])
        after == i < Len(s) /\ IsWordChar(s[i + 1])
    IN before # after

\* the end of the match of \b\w+\b that starts at offset i, or -1: \w+ is
\* greedy and gives characters back until \b holds after it
MatchEnd(s, i) ==
    LET ends == {j \in (i + 1)..Len(s) :
                    /\ \A k \in (i + 1)..j : IsWordChar(s[k])
                    /\ AtBoundary(s, j)}
    IN IF AtBoundary(s, i) /\ ends # {} THEN SetMax(ends) ELSE -1

\* the scan of re.split: `prev` is where the previous match ended, `pos` the
\* offset tried next; the text between matches and each captured group are
\* both emitted, empty strings included
RECURSIVE ReSplitFrom(_, _, _)
ReSplitFrom(s, prev, pos) ==
    IF pos >= Len(s) THEN <<SubSeq(s, prev + 1, Len(s))>>
    ELSE LET e == MatchEnd(s, pos)
         IN IF e = -1 THEN ReSplitFrom(s, prev, pos + 1)
            ELSE <<SubSeq(s, prev + 1, pos), SubSeq(s, pos + 1, e)>>
                     \o ReSplitFrom(s, e, e)

\* the split without the capturing group: the matched words are not emitted
RECURSIVE ReSplitUncapturedFrom(_, _, _)
ReSplitUncapturedFrom(s, prev, pos) ==
    IF pos >= Len(s) THEN <<SubSeq(s, prev + 1, Len(s))>>
    ELSE LET e == MatchEnd(s, pos)
         IN IF e = -1 THEN ReSplitUncapturedFrom(s, prev, pos + 1)
            ELSE <<SubSeq(s, prev + 1, pos)>> \o ReSplitUncapturedFrom(s, e, e)

re_split_uncaptured(s) == ReSplitUncapturedFrom(s, 0, 0)

re_split(s) == ReSplitFrom(s, 0, 0)

\* process_text_node, lines 138-140: split, then drop the empty strings
Parts(s) == NonEmpty(re_split(s))

\* process_text_node, line 151: part.isalnum() and len(part) > 1
IsHyphenatable(part) ==
    /\ part # <<>>
    /\ \A k \in 1..Len(part) : IsAlnumChar(part[k])
    /\ Len(part) > 1

(***************************************************************************)
(* The hyphenator (PyHyphen, an external library): a call either raises or *)
(* returns a list of syllables.  Any cut of the word into pieces, no       *)
(* syllable at all, and one syllable that is not the whole word are all    *)
(* outcomes a dictionary may give.                                         *)
(***************************************************************************)
RECURSIVE Compositions(_)
Compositions(w) ==
    IF w = <<>> THEN {<<>>}
    ELSE UNION {{<<SubSeq(w, 1, k)>> \o r :
                    r \in Compositions(SubSeq(w, k + 1, Len(w)))} : k \in 1..Len(w)}

Raised == [raised |-> TRUE, syllables |-> <<>>]
Syllables(syl) == [raised |-> FALSE, syllables |-> syl]
NoCall == [raised |-> FALSE, syllables |-> <<<<"-">>>>]

Outcomes(w) ==
    {Raised, Syllables(<<>>), Syllables(<<SubSeq(w, 1, Len(w) - 1)>>)}
        \cup {Syllables(c) : c \in Compositions(w)}

\* one outcome for each part of a text node: a hyphenator outcome for the
\* parts the hyphenator is called with, NoCall for the others
RECURSIVE OutcomeSeqs(_)
OutcomeSeqs(parts) ==
    IF parts = <<>> THEN {<<>>}
    ELSE LET here == IF IsHyphenatable(Head(parts)) THEN Outcomes(Head(parts))
                     ELSE {NoCall}
         IN {<<o>> \o r : o \in here, r \in OutcomeSeqs(Tail(parts))}

(***************************************************************************)
(* create_styled_syllables                                                 *)
(***************************************************************************)
\* the elements a replacement is made of, before they are in the tree
NavigableString(s) == [bold |-> FALSE, string |-> s]
BoldTag(s) == [bold |-> TRUE, string |-> s]

\* the alternation started one syllable early
StyledFromFirstBold(syllables) ==
    [i \in 1..Len(syllables) |->
        IF i % 2 = 1 THEN [bold |-> TRUE, string |-> syllables[i]]
        ELSE [bold |-> FALSE, string |-> syllables[i]]]

\* lines 112-121: the enumerate loop; i is 1-based here, so index i - 1
StyledFrom(syllables) ==
    [i \in 1..Len(syllables) |->
        IF (i - 1) % 2 = 1 THEN BoldTag(syllables[i])
        ELSE NavigableString(syllables[i])]

\* a single syllable styled like a list of several
create_styled_syllables_lt1(word, outcome) ==
    IF outcome.raised THEN <<NavigableString(word)>>
    ELSE IF Len(outcome.syllables) < 1 THEN <<NavigableString(word)>>
    ELSE StyledFrom(outcome.syllables)

create_styled_syllables(word, outcome) ==
    IF outcome.raised THEN <<NavigableString(word)>>
    ELSE IF Len(outcome.syllables) <= 1 THEN <<NavigableString(word)>>
    ELSE StyledFrom(outcome.syllables)

\* process_text_node, lines 146-157: what each part contributes
RECURSIVE Expansions(_, _)
Expansions(parts, outs) ==
    IF parts = <<>> THEN <<>>
    ELSE <<IF IsHyphenatable(Head(parts))
           THEN create_styled_syllables(Head(parts), Head(outs))
           ELSE <<NavigableString(Head(parts))>>>>
         \o Expansions(Tail(parts), Tail(outs))

\* new_content.extend / new_content.append: one flat list
NewContent(parts, outs) == Concat(Expansions(parts, outs))

(***************************************************************************)
(* The document tree (BeautifulSoup, an external library)                  *)
(***************************************************************************)
Node(kind, name, string, parent) ==
    [kind |-> kind, name |-> name, string |-> string, parent |-> parent,
     contents |-> <<>>]

DocumentNode == Node("document", "[document]", <<>>, 0)

\* the kinds of node that are NavigableString objects; only "comment" is an
\* instance of bs4's Comment class
StringKinds == {"text", "comment", "cdata"}
IsString(n) == n.kind \in StringKinds

Root == 1

\* a new node under parent p, as the last of its children
AppendChild(sp, n, p) ==
    LET id == Len(sp) + 1
    IN [i \in 1..id |->
          IF i = id THEN n
          ELSE IF i = p THEN [sp[i] EXCEPT !.contents = @ \o <<id>>]
          ELSE sp[i]]

\* markup is a sequence of tokens; the parser builds the tree the tokens nest
OpenTok(name) == [t |-> "open", name |-> name, string |-> <<>>]
CloseTok(name) == [t |-> "close", name |-> name, string |-> <<>>]
StringTok(kind, s) == [t |-> kind, name |-> "", string |-> s]

\* two adjacent text tokens are one run of characters in a markup string
RECURSIVE MergeText(_)
MergeText(toks) ==
    IF Len(toks) < 2 THEN toks
    ELSE IF toks[1].t = "text" /\ toks[2].t = "text"
         THEN MergeText(<<StringTok("text", toks[1].string \o toks[2].string)>>
                            \o SubSeq(toks, 3, Len(toks)))
         ELSE <<toks[1]>> \o MergeText(Tail(toks))

RECURSIVE ParseFrom(_, _, _, _)
ParseFrom(toks, i, sp, cur) ==
    IF i > Len(toks) THEN sp
    ELSE LET tk == toks[i]
         IN IF tk.t = "open"
            THEN ParseFrom(toks, i + 1, AppendChild(sp, Node("tag", tk.name, <<>>, cur), cur),
                           Len(sp) + 1)
            ELSE IF tk.t = "close" THEN ParseFrom(toks, i + 1, sp, sp[cur].parent)
            ELSE ParseFrom(toks, i + 1, AppendChild(sp, Node(tk.t, "", tk.string, cur), cur),
                           cur)

\* BeautifulSoup(html_content, PARSER): a run of characters between two tags
\* is one text node
Parse(toks) == ParseFrom(MergeText(toks), 1, <<DocumentNode>>, Root)

\* the nodes below the given children, in document order (pre-order)
RECURSIVE DescendantsOf(_, _)
DescendantsOf(sp, ids) ==
    IF ids = <<>> THEN <<>>
    ELSE <<Head(ids)>> \o DescendantsOf(sp, sp[Head(ids)].contents)
             \o DescendantsOf(sp, Tail(ids))

\* soup.find_all(string=True): every NavigableString of the tree, whatever
\* its class, in document order
find_all_strings(sp) ==
    SelectSeq(DescendantsOf(sp, sp[Root].contents), LAMBDA id : IsString(sp[id]))

RECURSIVE TokensOf(_, _)
TokensOf(sp, ids) ==
    IF ids = <<>> THEN <<>>
    ELSE LET n == sp[Head(ids)]
         IN (IF n.kind = "tag"
             THEN <<OpenTok(n.name)>> \o TokensOf(sp, n.contents) \o <<CloseTok(n.name)>>
             ELSE <<StringTok(n.kind, n.string)>>)
            \o TokensOf(sp, Tail(ids))

\* str(soup)
Serialize(sp) == MergeText(TokensOf(sp, sp[Root].contents))

IndexOf(seq, x) == CHOOSE k \in 1..Len(seq) : seq[k] = x

\* the new elements become nodes of the tree under parent p: a plain
\* fragment one text node, a bold fragment a <b> tag with one text child
\* (soup.new_tag("b"), bold_tag.string = syllable).  `tops` collects the ids
\* that go into the parent's list of children.
RECURSIVE AddElements(_, _, _, _)
AddElements(sp, p, elems, tops) ==
    IF elems = <<>> THEN [soup |-> sp, tops |-> tops]
    ELSE LET e == Head(elems)
             id == Len(sp) + 1
         IN IF e.bold
            THEN AddElements(
                     sp \o <<[Node("tag", "b", <<>>, p) EXCEPT !.contents = <<id + 1>>],
                             Node("text", "", e.string, id)>>,
                     p, Tail(elems), tops \o <<id>>)
            ELSE AddElements(sp \o <<Node("text", "", e.string, p)>>,
                             p, Tail(elems), tops \o <<id>>)

\* the siblings after the replaced node are lost
replace_with_truncating(sp, id, elems) ==
    LET p == sp[id].parent
        k == IndexOf(sp[p].contents, id)
        added == AddElements(sp, p, elems, <<>>)
        kids == sp[p].contents
    IN [i \in 1..Len(added.soup) |->
          IF i = id THEN [sp[i] EXCEPT !.parent = 0]
          ELSE IF i = p
               THEN [sp[i] EXCEPT !.contents = SubSeq(kids, 1, k - 1) \o added.tops]
               ELSE added.soup[i]]

\* text_node.replace_with(*new_content): the node leaves the tree (its
\* parent becomes None) and the new elements take its place among its
\* siblings, in order
replace_with(sp, id, elems) ==
    LET p == sp[id].parent
        k == IndexOf(sp[p].contents, id)
        added == AddElements(sp, p, elems, <<>>)
        kids == sp[p].contents
    IN [i \in 1..Len(added.soup) |->
          IF i = id THEN [sp[i] EXCEPT !.parent = 0]
          ELSE IF i = p
               THEN [sp[i] EXCEPT !.contents =
                        SubSeq(kids, 1, k - 1) \o added.tops
                            \o SubSeq(kids, k + 1, Len(kids))]
               ELSE added.soup[i]]

(***************************************************************************)
(* process_text_node                                                       *)
(***************************************************************************)
NoLast ==
    [node |-> 0, text |-> <<>>, parts |-> <<>>, outs |-> <<>>, styled |-> <<>>,
     new_content |-> <<>>, replaced |-> FALSE, warned |-> FALSE]

\* the whole function for node id, given the outcome of each hyphenator
\* call: the tree afterwards, and what the call did
process_text_node(sp, id, outs) ==
    LET parts == Parts(sp[id].string)
        new_content == NewContent(parts, outs)
        did == [node |-> id, text |-> sp[id].string, parts |-> parts, outs |-> outs,
                styled |-> Expansions(parts, outs),
                new_content |-> new_content, replaced |-> FALSE, warned |-> FALSE]
    IN IF parts = <<>> THEN [soup |-> sp, did |-> did]
       ELSE IF new_content = <<>> THEN [soup |-> sp, did |-> did]
       ELSE IF sp[id].parent # 0
            THEN [soup |-> replace_with(sp, id, new_content),
                  did |-> [did EXCEPT !.replaced = TRUE]]
            ELSE [soup |-> sp, did |-> [did EXCEPT !.warned = TRUE]]

(***************************************************************************)
(* process_html_content                                                    *)
(***************************************************************************)
\* not text_node.string.strip()
IsBlank(s) == \A k \in 1..Len(s) : IsSpaceChar(s[k])

\* line 186: isinstance(text_node, (Comment,)) or not text_node.string.strip()
Continues(sp, id) == sp[id].kind = "comment" \/ IsBlank(sp[id].string)

\* lines 193-201: the walk up from the node's parent.  A Tag equals its own
\* ancestor only if it is that ancestor (a tree cannot equal a proper part
\* of itself), so text_node.parent == current_parent compares ids.
\* the direct-text set applied to every ancestor, not to the parent alone
RECURSIVE SkipFromAnyAncestor(_, _, _)
SkipFromAnyAncestor(sp, id, current_parent) ==
    IF current_parent = 0 THEN FALSE
    ELSE IF sp[current_parent].name = "[document]" THEN FALSE
    ELSE IF sp[current_parent].name \in TAGS_TO_SKIP_COMPLETELY THEN TRUE
    ELSE IF sp[current_parent].name \in TAGS_TO_SKIP_DIRECT_TEXT THEN TRUE
    ELSE SkipFromAnyAncestor(sp, id, sp[current_parent].parent)

RECURSIVE SkipFrom(_, _, _)
SkipFrom(sp, id, current_parent) ==
    IF current_parent = 0 THEN FALSE
    ELSE IF sp[current_parent].name = "[document]" THEN FALSE
    ELSE IF sp[current_parent].name \in TAGS_TO_SKIP_COMPLETELY THEN TRUE
    ELSE IF /\ sp[current_parent].name \in TAGS_TO_SKIP_DIRECT_TEXT
            /\ sp[id].parent = current_parent
         THEN TRUE
    ELSE SkipFrom(sp, id, sp[current_parent].parent)

skip_node(sp, id) == SkipFrom(sp, id, sp[id].parent)

(***************************************************************************)
(* The states of the parts of the program a specification leaves alone     *)
(***************************************************************************)
Langs == {"de_DE", "en_US"}
NoFile == <<[t |-> "nofile", name |-> "", string |-> <<>>]>>
NoPath == [parent |-> "", stem |-> "", suffix |-> ""]
NoArgs == [input_path |-> NoPath, inplace |-> FALSE, output_path |-> NoPath]
NoHandle == [lang |-> "", serial |-> 0]

RunIdle ==
    /\ fs = <<>> /\ dirs = {} /\ fs0 = <<>> /\ dirs0 = {}
    /\ cache = <<>>
    /\ installed = {}
    /\ lookups = [l \in Langs |-> 0]
    /\ constructed = [l \in Langs |-> 0]
    /\ returned = NoHandle
    /\ pc = "idle"
    /\ args = NoArgs
    /\ output_path = NoPath
    /\ html_content = <<>>
    /\ hyphenator = NoHandle
    /\ processed = <<>>
    /\ err = "none"
    /\ events = <<>>

(***************************************************************************)
(* process_text_node on one text node, in the tree or detached             *)
(***************************************************************************)
AttachedText(s) ==
    <<[DocumentNode EXCEPT !.contents = <<2>>], Node("text", "", s, Root)>>
DetachedText(s) == <<DocumentNode, Node("text", "", s, 0)>>

InitText ==
    /\ soup \in {AttachedText(s) : s \in Strings} \cup {DetachedText(s) : s \in Strings}
    /\ soup0 = soup
    /\ all_text_nodes = <<>>
    /\ idx = 0
    /\ wpc = "node"
    /\ visited = <<>>
    /\ warnings = 0
    /\ last = NoLast
    /\ RunIdle

CallProcessTextNode ==
    /\ wpc = "node"
    /\ \E outs \in OutcomeSeqs(Parts(soup[2].string)) :
          LET r == process_text_node(soup, 2, outs)
          IN /\ soup' = r.soup
             /\ last' = r.did
             /\ warnings' = warnings + (IF r.did.warned THEN 1 ELSE 0)
    /\ wpc' = "returned"
    /\ UNCHANGED <<all_text_nodes, idx, visited, soup0>>
    /\ UNCHANGED runVars

NextText == CallProcessTextNode

SpecText == InitText /\ [][NextText]_vars

(***************************************************************************)
(* process_html_content on a parsed document                               *)
(***************************************************************************)
DocTags == {"p", "pre", "script"}
DocStrings ==
    {StringTok("text", <<"a", "b", " ">>), StringTok("text", <<" ">>),
     StringTok("comment", <<"a", "b">>), StringTok("cdata", <<"a", "b">>)}

\* markup nesting d elements: every element holds a string and then the
\* next element, the innermost holds two strings
RECURSIVE ChainDocs(_)
ChainDocs(d) ==
    IF d <= 1
    THEN {<<OpenTok(n), s1, s2, CloseTok(n)>> :
             n \in DocTags, s1 \in DocStrings, s2 \in DocStrings}
    ELSE {<<OpenTok(n), s>> \o inner \o <<CloseTok(n)>> :
             n \in DocTags, s \in DocStrings, inner \in ChainDocs(d - 1)}

WalkDocs == UNION {ChainDocs(d) : d \in 1..MaxDepth}

InitWalk ==
    /\ soup \in {Parse(m) : m \in WalkDocs}
    /\ soup0 = soup
    /\ all_text_nodes = <<>>
    /\ idx = 0
    /\ wpc = "call"
    /\ visited = <<>>
    /\ warnings = 0
    /\ last = NoLast
    /\ RunIdle

\* line 182: the list is taken before the loop starts
FindAll ==
    /\ wpc = "call"
    /\ all_text_nodes' = find_all_strings(soup)
    /\ idx' = 1
    /\ wpc' = "loop"
    /\ UNCHANGED <<soup, visited, warnings, last, soup0>>
    /\ UNCHANGED runVars

InLoop == wpc = "loop" /\ idx <= Len(all_text_nodes)
text_node == all_text_nodes[idx]

\* lines 186-187: continue
VisitContinue ==
    /\ InLoop
    /\ Continues(soup, text_node)
    /\ idx' = idx + 1
    /\ visited' = visited \o <<text_node>>
    /\ UNCHANGED <<soup, all_text_nodes, wpc, warnings, last, soup0>>
    /\ UNCHANGED runVars

\* lines 190-203 with skip_node true: nothing is done for the node
VisitSkip ==
    /\ InLoop
    /\ ~Continues(soup, text_node)
    /\ skip_node(soup, text_node)
    /\ idx' = idx + 1
    /\ visited' = visited \o <<text_node>>
    /\ UNCHANGED <<soup, all_text_nodes, wpc, warnings, last, soup0>>
    /\ UNCHANGED runVars

\* lines 190-205 with skip_node false: process_text_node runs
VisitProcess ==
    /\ InLoop
    /\ ~Continues(soup, text_node)
    /\ ~skip_node(soup, text_node)
    /\ \E outs \in OutcomeSeqs(Parts(soup[text_node].string)) :
          LET r == process_text_node(soup, text_node, outs)
          IN /\ soup' = r.soup
             /\ last' = r.did
             /\ warnings' = warnings + (IF r.did.warned THEN 1 ELSE 0)
    /\ idx' = idx + 1
    /\ visited' = visited \o <<text_node>>
    /\ UNCHANGED <<all_text_nodes, wpc, soup0>>
    /\ UNCHANGED runVars

\* the for loop is exhausted: process_html_content returns
WalkReturn ==
    /\ wpc = "loop"
    /\ idx > Len(all_text_nodes)
    /\ wpc' = "done"
    /\ UNCHANGED <<soup, all_text_nodes, idx, visited, warnings, last, soup0>>
    /\ UNCHANGED runVars

NextWalk == FindAll \/ VisitContinue \/ VisitSkip \/ VisitProcess \/ WalkReturn

SpecWalk == InitWalk /\ [][NextWalk]_vars

(***************************************************************************)
(* get_hyphenator                                                          *)
(***************************************************************************)
\* what the external calls of one get_hyphenator call do: is_installed may
\* raise, install may fail, Hyphenator(lang) may raise
Envs == [lookup_raises : BOOLEAN, install_ok : BOOLEAN, ctor_ok : BOOLEAN]

\* the whole function: `returned` is its result, NoHandle is None.  No
\* statement of the function assigns to _HYPHENATOR_CACHE.
get_hyphenator(lang, env) ==
    IF lang \in DOMAIN cache
    THEN /\ returned' = cache[lang]
         /\ UNCHANGED <<cache, installed, lookups, constructed>>
    ELSE /\ lookups' = [lookups EXCEPT ![lang] = @ + 1]
         /\ cache' = cache
         /\ IF env.lookup_raises
            THEN returned' = NoHandle /\ UNCHANGED <<installed, constructed>>
            ELSE IF lang \notin installed /\ ~env.install_ok
            THEN returned' = NoHandle /\ UNCHANGED <<installed, constructed>>
            ELSE /\ installed' = installed \cup {lang}
                 /\ IF env.ctor_ok
                    THEN /\ constructed' = [constructed EXCEPT ![lang] = @ + 1]
                         /\ returned' = [lang |-> lang, serial |-> constructed[lang] + 1]
                    ELSE returned' = NoHandle /\ UNCHANGED constructed

InitCache ==
    /\ soup = <<DocumentNode>> /\ soup0 = <<DocumentNode>>
    /\ all_text_nodes = <<>> /\ idx = 0 /\ wpc = "none"
    /\ visited = <<>> /\ warnings = 0 /\ last = NoLast
    /\ fs = <<>> /\ dirs = {} /\ fs0 = <<>> /\ dirs0 = {}
    /\ cache = <<>>
    /\ installed \in SUBSET Langs
    /\ lookups = [l \in Langs |-> 0]
    /\ constructed = [l \in Langs |-> 0]
    /\ returned = NoHandle
    /\ pc = "idle"
    /\ args = NoArgs
    /\ output_path = NoPath
    /\ html_content = <<>>
    /\ hyphenator = NoHandle
    /\ processed = <<>>
    /\ err = "none"
    /\ events = <<>>

\* some caller in the process calls get_hyphenator(lang)
CallGetHyphenator(lang) ==
    /\ pc = "idle"
    /\ lookups[lang] < MaxCalls
    /\ \E env \in Envs : get_hyphenator(lang, env)
    /\ events' = events \o <<lang>>
    /\ UNCHANGED walkVars
    /\ UNCHANGED <<fs, dirs, pc, args, output_path, html_content, hyphenator, processed,
                   err, fs0, dirs0>>

NextCache == \E lang \in Langs : CallGetHyphenator(lang)

SpecCache == InitCache /\ [][NextCache]_vars

(***************************************************************************)
(* The run: emphasize_file_content, process_html_file,                     *)
(* process_html_file_content                                               *)
(***************************************************************************)
\* the German dictionary, a fixed function of the word; here every character
\* is a syllable
DictOutcome(word) == Syllables([i \in 1..Len(word) |-> <<word[i]>>])

DictOutcomes(parts) ==
    [i \in 1..Len(parts) |->
        IF IsHyphenatable(parts[i]) THEN DictOutcome(parts[i]) ELSE NoCall]

\* the for loop of process_html_content, run to its end
RECURSIVE WalkFrom(_, _, _)
WalkFrom(sp, nodes, i) ==
    IF i > Len(nodes) THEN sp
    ELSE IF Continues(sp, nodes[i]) \/ skip_node(sp, nodes[i])
         THEN WalkFrom(sp, nodes, i + 1)
         ELSE WalkFrom(
                  process_text_node(sp, nodes[i],
                                    DictOutcomes(Parts(sp[nodes[i]].string))).soup,
                  nodes, i + 1)

process_html_content(sp) == WalkFrom(sp, find_all_strings(sp), 1)

\* process_html_file_content after the hyphenator is there: parse, walk,
\* str(soup)
Rewritten(markup) == Serialize(process_html_content(Parse(markup)))

Path(parent, stem, suffix) == [parent |-> parent, stem |-> stem, suffix |-> suffix]

\* line 294: input_path.parent / (input_path.stem + DEFAULT_SUFFIX + ".html")
DefaultOutputKeepingSuffix(p) == Path(p.parent, p.stem \o DEFAULT_SUFFIX, p.suffix)

DefaultOutput(p) == Path(p.parent, p.stem \o DEFAULT_SUFFIX, ".html")

\* one more suffix let through
html_input_and_txt == {".html", ".xhtml", ".txt"}

\* line 299
html_input == {".html", ".xhtml"}

\* line 239: hyphenator is None
NeverNone(h) == FALSE

IsNone(h) == h = NoHandle

InputPaths == {Path("in", "book", ".html"), Path("in", "book", ".xhtml"),
               Path("in", "notes", ".txt")}
OutputPaths == {Path("in", "book", ".html"), Path("out", "book", ".html")}
AllPaths ==
    InputPaths \cup OutputPaths \cup {DefaultOutput(p) : p \in InputPaths}

FileDocs ==
    {<<OpenTok("p"), StringTok("text", <<"a", "b", " ">>), CloseTok("p")>>,
     <<OpenTok("script"), StringTok("text", <<"a", "b">>), CloseTok("script")>>}

ArgsSet ==
    [input_path : InputPaths, inplace : BOOLEAN, output_path : OutputPaths \cup {NoPath}]

InitRun ==
    /\ soup = <<DocumentNode>> /\ soup0 = <<DocumentNode>>
    /\ all_text_nodes = <<>> /\ idx = 0 /\ wpc = "none"
    /\ visited = <<>> /\ warnings = 0 /\ last = NoLast
    /\ \E present \in SUBSET InputPaths :
          \E doc \in FileDocs :
             fs = [p \in AllPaths |-> IF p \in present THEN doc ELSE NoFile]
    /\ dirs = {"in"}
    /\ fs0 = fs /\ dirs0 = dirs
    /\ cache = <<>>
    /\ installed \in SUBSET {TARGET_LANG}
    /\ lookups = [l \in Langs |-> 0]
    /\ constructed = [l \in Langs |-> 0]
    /\ returned = NoHandle
    /\ pc = "idle"
    /\ args = NoArgs
    /\ output_path = NoPath
    /\ html_content = <<>>
    /\ hyphenator = NoHandle
    /\ processed = <<>>
    /\ err = "none"
    /\ events = <<>>

\* lines 285-303, up to the call of process_html_file or the raise; a call
\* starts when the process is outside any run
EmphasizeFileContent(a) ==
    /\ pc \in {"idle", "returned", "raised"}
    /\ lookups[TARGET_LANG] < MaxCalls
    /\ args' = a
    /\ fs0' = fs /\ dirs0' = dirs
    /\ events' = <<>>
    /\ html_content' = <<>> /\ hyphenator' = NoHandle /\ processed' = <<>>
    /\ IF fs[a.input_path] = NoFile
       THEN pc' = "raised" /\ err' = "ValueError" /\ output_path' = NoPath
       ELSE IF a.inplace /\ a.output_path # NoPath
       THEN pc' = "raised" /\ err' = "AssertionError" /\ output_path' = NoPath
       ELSE /\ output_path' = IF a.inplace THEN a.input_path
                              ELSE IF a.output_path = NoPath
                                   THEN DefaultOutput(a.input_path)
                                   ELSE a.output_path
            /\ IF a.input_path.suffix \in html_input
               THEN pc' = "read" /\ err' = "none"
               ELSE pc' = "raised" /\ err' = "ValueError"
    /\ UNCHANGED walkVars
    /\ UNCHANGED <<fs, dirs, cache, installed, lookups, constructed, returned>>

\* process_html_file, lines 219-224: input_path.read_text()
ReadInput ==
    /\ pc = "read"
    /\ html_content' = fs[args.input_path]
    /\ events' = events \o <<"read">>
    /\ pc' = "hyphenator"
    /\ UNCHANGED walkVars
    /\ UNCHANGED <<fs, dirs, cache, installed, lookups, constructed, returned, args,
                   output_path, hyphenator, processed, err, fs0, dirs0>>

\* process_html_file_content, lines 237-240
InitHyphenator ==
    /\ pc = "hyphenator"
    /\ \E env \in Envs : get_hyphenator(TARGET_LANG, env)
    /\ hyphenator' = returned'
    /\ events' = events \o <<"get_hyphenator">>
    /\ IF IsNone(returned')
       THEN pc' = "raised" /\ err' = "RuntimeError"
       ELSE pc' = "rewrite" /\ err' = err
    /\ UNCHANGED walkVars
    /\ UNCHANGED <<fs, dirs, args, output_path, html_content, processed, fs0, dirs0>>

\* process_html_file_content, lines 242-267, and the return to line 226
RewriteContent ==
    /\ pc = "rewrite"
    /\ processed' = Rewritten(html_content)
    /\ events' = events \o <<"parse", "walk", "serialize">>
    /\ pc' = "write"
    /\ UNCHANGED walkVars
    /\ UNCHANGED <<fs, dirs, cache, installed, lookups, constructed, returned, args,
                   output_path, html_content, hyphenator, err, fs0, dirs0>>

\* process_html_file, lines 229-231: mkdir of the parent, then write_text
WriteOutput ==
    /\ pc = "write"
    /\ dirs' = dirs \cup {output_path.parent}
    /\ fs' = [fs EXCEPT ![output_path] = processed]
    /\ events' = events \o <<"mkdir", "write">>
    /\ pc' = "returned"
    /\ UNCHANGED walkVars
    /\ UNCHANGED <<cache, installed, lookups, constructed, returned, args, output_path,
                   html_content, hyphenator, processed, err, fs0, dirs0>>

NextRun ==
    \/ \E a \in ArgsSet : EmphasizeFileContent(a)
    \/ ReadInput
    \/ InitHyphenator
    \/ RewriteContent
    \/ WriteOutput

SpecRun == InitRun /\ [][NextRun]_vars

(***************************************************************************)
(* Claims about process_text_node and create_styled_syllables (SpecText)   *)
(***************************************************************************)
Returned == wpc = "returned"

\* element e of a replacement is node id of the tree: a plain fragment a text
\* node, a bold fragment a <b> tag with exactly one text child
IsElement(sp, id, e) ==
    IF e.bold
    THEN /\ sp[id].kind = "tag" /\ sp[id].name = "b"
         /\ Len(sp[id].contents) = 1
         /\ sp[sp[id].contents[1]].kind = "text"
         /\ sp[sp[id].contents[1]].string = e.string
         /\ sp[sp[id].contents[1]].parent = id
    ELSE sp[id].kind = "text" /\ sp[id].string = e.string

Hyphenated(i) ==
    /\ IsHyphenatable(last.parts[i])
    /\ ~last.outs[i].raised
    /\ Len(last.outs[i].syllables) >= 2

Unhyphenated(i) ==
    /\ IsHyphenatable(last.parts[i])
    /\ (last.outs[i].raised \/ Len(last.outs[i].syllables) <= 1)

\* C4: a word whose hyphenation returns n >= 2 syllables becomes exactly n
\* fragments in syllable order; fragment i (0-based) has the text of syllable
\* i and is a <b> element with one text child iff i is odd, so floor(n/2)
\* fragments are emphasized and the first is plain.
C4_AlternationLaw ==
    Returned =>
        /\ \A i \in 1..Len(last.parts) :
              Hyphenated(i) =>
                  LET syl == last.outs[i].syllables
                      r == last.styled[i]
                  IN /\ Len(r) = Len(syl)
                     /\ \A k \in 1..Len(r) :
                           /\ r[k].string = syl[k]
                           /\ r[k].bold <=> (k - 1) % 2 = 1
                     /\ Cardinality({k \in 1..Len(r) : r[k].bold}) = Len(syl) \div 2
                     /\ ~r[1].bold
        /\ last.replaced =>
              LET kids == soup[Root].contents
              IN /\ Len(kids) = Len(last.new_content)
                 /\ \A j \in 1..Len(kids) : IsElement(soup, kids[j], last.new_content[j])

C4_Witness ==
    /\ Returned
    /\ last.replaced
    /\ \E i \in 1..Len(last.parts) : Hyphenated(i) /\ Len(last.outs[i].syllables) = 4

\* C5: a word whose hyphenator call raises, or returns no or one syllable,
\* becomes exactly one plain fragment with the word's own text; the failure
\* stops nothing: every part of the node is still expanded and the node is
\* still replaced.
C5_SingleFragment ==
    Returned =>
        /\ \A i \in 1..Len(last.parts) :
              Unhyphenated(i) => last.styled[i] = <<NavigableString(last.parts[i])>>
        /\ Len(last.styled) = Len(last.parts)
        /\ \A i \in 1..Len(last.parts) : last.styled[i] # <<>>
        /\ last.new_content = Concat(last.styled)
        /\ (last.parts # <<>> /\ soup0[2].parent # 0) => last.replaced

C5_Witness ==
    /\ Returned
    /\ last.replaced
    /\ Len(last.parts) >= 3
    /\ Unhyphenated(1)
    /\ last.outs[1].raised

\* C6: the non-empty parts of the split of a text node's string s concatenate
\* back to exactly s; the list is empty only when s is empty, and then no
\* replacement occurs.
C6_LosslessTokenization ==
    Returned =>
        /\ last.text = soup0[2].string
        /\ Concat(last.parts) = last.text
        /\ \A i \in 1..Len(last.parts) : last.parts[i] # <<>>
        /\ last.parts = <<>> <=> last.text = <<>>
        /\ last.text = <<>> => ~last.replaced /\ soup = soup0

C6_Witness ==
    /\ Returned
    /\ last.replaced
    /\ Len(last.parts) >= 3
    /\ \E i \in 1..Len(last.parts) : IsHyphenatable(last.parts[i])

(***************************************************************************)
(* Claims about process_html_content (SpecWalk)                            *)
(***************************************************************************)
\* the names of the elements above a node, up to the document
RECURSIVE AncestorNames(_, _)
AncestorNames(sp, id) ==
    LET p == sp[id].parent
    IN IF p = 0 THEN {}
       ELSE IF sp[p].kind = "document" THEN {}
       ELSE {sp[p].name} \cup AncestorNames(sp, p)

ParentName(sp, id) == sp[sp[id].parent].name

SeqToSet(q) == {q[k] : k \in 1..Len(q)}

\* the string nodes of the document as it was parsed
StringIds0 == {id \in 1..Len(soup0) : IsString(soup0[id])}

\* the node is the node it was, and still in the tree under the same parent
Untouched(id) ==
    /\ soup[id] = soup0[id]
    /\ id \in SeqToSet(soup[soup[id].parent].contents)
    /\ id \in SeqToSet(find_all_strings(soup))

\* the node was replaced: it has left the tree
Replaced(id) == soup[id].parent = 0 /\ id \notin SeqToSet(find_all_strings(soup))

UnderCompleteSkip(id) == AncestorNames(soup0, id) \cap TAGS_TO_SKIP_COMPLETELY # {}
DirectlyUnderSkip(id) == ParentName(soup0, id) \in TAGS_TO_SKIP_DIRECT_TEXT

\* C2: a text node with an ancestor in TAGS_TO_SKIP_COMPLETELY, or whose
\* immediate parent is in TAGS_TO_SKIP_DIRECT_TEXT, stays in the tree
\* unchanged; a non-blank text node whose parent is in neither set and that
\* has no complete-skip ancestor is processed once the loop has visited it,
\* also when a higher ancestor is in the direct-text set.
C2_SkipSetEnforcement ==
    \A id \in StringIds0 :
        /\ (UnderCompleteSkip(id) \/ DirectlyUnderSkip(id)) => Untouched(id)
        /\ ( /\ soup0[id].kind = "text"
             /\ ~IsBlank(soup0[id].string)
             /\ ParentName(soup0, id)
                    \notin TAGS_TO_SKIP_DIRECT_TEXT \cup TAGS_TO_SKIP_COMPLETELY
             /\ ~UnderCompleteSkip(id)
             /\ id \in SeqToSet(visited) ) => Replaced(id)

C2_Witness ==
    /\ wpc = "done"
    /\ \E id \in StringIds0 :
          /\ soup0[id].kind = "text" /\ ~IsBlank(soup0[id].string)
          /\ ParentName(soup0, id) = "p"
          /\ "pre" \in AncestorNames(soup0, id)
          /\ Replaced(id)
    /\ \E id \in StringIds0 :
          /\ soup0[id].kind = "text" /\ ~IsBlank(soup0[id].string)
          /\ ParentName(soup0, id) = "pre"
          /\ Untouched(id)

\* C3: after process_html_content every comment node and every CDATA node
\* is still the same node in the same place, never replaced by fragments.
C3_CommentAndCDataKept ==
    \A id \in StringIds0 : soup0[id].kind \in {"comment", "cdata"} => Untouched(id)

\* C10: the list of text nodes is the one taken before any mutation; its
\* nodes are visited once each, in document order; a listed node not yet
\* visited is untouched and still in the tree; the detached-node warning is
\* never printed; no node made by a replacement is in the list.
C10_SnapshotStability ==
    wpc \in {"loop", "done"} =>
        /\ all_text_nodes = find_all_strings(soup0)
        /\ \A j, k \in 1..Len(all_text_nodes) :
              all_text_nodes[j] = all_text_nodes[k] => j = k
        /\ visited = SubSeq(all_text_nodes, 1, idx - 1)
        /\ wpc = "done" => visited = all_text_nodes
        /\ \A k \in idx..Len(all_text_nodes) : Untouched(all_text_nodes[k])
        /\ warnings = 0
        /\ \A id \in (Len(soup0) + 1)..Len(soup) : id \notin SeqToSet(all_text_nodes)

C10_Witness ==
    /\ wpc = "loop"
    /\ idx >= 2 /\ idx <= Len(all_text_nodes)
    /\ Replaced(all_text_nodes[1])
    /\ Len(soup) > Len(soup0)
    /\ ~Continues(soup, all_text_nodes[idx])
    /\ ~skip_node(soup, all_text_nodes[idx])

(***************************************************************************)
(* Claim about get_hyphenator (SpecCache)                                  *)
(***************************************************************************)
\* C1: a hyphenator handle for a language tag is constructed at most once in
\* a process: after the first successful call every later call for the tag
\* returns that same handle, without another dictionary lookup.
C1_ConstructedAtMostOnce ==
    \A l \in Langs :
        /\ constructed[l] <= 1
        /\ returned.lang = l => returned.serial = 1

(***************************************************************************)
(* Claims about the run (SpecRun)                                          *)
(***************************************************************************)
InRun == pc # "idle"

NothingDone ==
    /\ fs = fs0
    /\ dirs = dirs0
    /\ processed = <<>>

\* the three usage errors, read off the arguments and the file system as
\* they were when the run was called
InputMissing == fs0[args.input_path] = NoFile
BothGiven == args.inplace /\ args.output_path # NoPath
BadSuffix == args.input_path.suffix \notin {".html", ".xhtml"}

\* C7: a missing input path, inplace together with an output path, and an
\* input suffix other than .html/.xhtml each end the run with an error
\* before the hyphenator is requested and before the document is read or
\* parsed, with no file written and no directory created.
C7_UsageErrorsFirst ==
    (InRun /\ (InputMissing \/ BothGiven \/ BadSuffix)) =>
        /\ pc = "raised"
        /\ err \in {"ValueError", "AssertionError"}
        /\ events = <<>>
        /\ html_content = <<>>
        /\ hyphenator = NoHandle
        /\ NothingDone

C7_Witness ==
    /\ pc = "raised"
    /\ args.input_path = Path("in", "notes", ".txt")
    /\ ~InputMissing /\ ~BothGiven /\ BadSuffix
    /\ err = "ValueError"
    /\ lookups[TARGET_LANG] > 0

\* C8: when get_hyphenator(TARGET_LANG) gives no handle the run raises right
\* after that call: the document is not parsed, no node is visited, nothing
\* is written (in in-place mode the input file keeps its content).
C8_HyphenatorUnavailableFatal ==
    (InRun /\ "get_hyphenator" \in SeqToSet(events) /\ returned = NoHandle) =>
        /\ pc = "raised"
        /\ err = "RuntimeError"
        /\ events = <<"read", "get_hyphenator">>
        /\ NothingDone

C8_Witness ==
    /\ pc = "raised"
    /\ err = "RuntimeError"
    /\ args.inplace
    /\ TARGET_LANG \notin installed
    /\ fs[args.input_path] # NoFile

\* where the claim says the output goes
Destination ==
    IF args.inplace THEN args.input_path
    ELSE IF args.output_path # NoPath THEN args.output_path
    ELSE Path(args.input_path.parent, args.input_path.stem \o "_syll_emph", ".html")

WritesOf(ev) == Cardinality({k \in 1..Len(ev) : ev[k] = "write"})

OneFileWritten ==
    /\ ~InputMissing /\ ~BadSuffix
    /\ WritesOf(events) = 1
    /\ fs[Destination] = Rewritten(fs0[args.input_path])
    /\ \A p \in AllPaths \ {Destination} : fs[p] = fs0[p]

\* C9 as stated: a successful run writes exactly one file, at the place the
\* mode names, with the rewritten input as content whatever the mode; and
\* when an output path is given the input file is left unchanged.
C9_InputNeverChanged ==
    pc = "returned" =>
        /\ OneFileWritten
        /\ (~args.inplace /\ args.output_path # NoPath) =>
              fs[args.input_path] = fs0[args.input_path]

\* C9 as amended: a successful run writes exactly one file, at the place the
\* mode names, with the rewritten input as content whatever the mode; and
\* when an output path is given that is not the input path itself, the input
\* file is left unchanged.
C9_OneFileWritten ==
    pc = "returned" =>
        /\ OneFileWritten
        /\ (~args.inplace /\ args.output_path # NoPath
                /\ args.output_path # args.input_path) =>
              fs[args.input_path] = fs0[args.input_path]

C9_Witness ==
    /\ pc = "returned"
    /\ ~args.inplace
    /\ args.output_path = Path("out", "book", ".html")
    /\ "out" \in dirs \ dirs0
    /\ fs[args.output_path] # fs0[args.input_path]
    /\ fs[args.input_path] = fs0[args.input_path]

====
